---- MODULE Spec2Model ----
(***************************************************************************)
(* BEALS prototype for Crossref (src/search_query/beals.py): evaluation    *)
(* of a boolean query tree against a remote service that answers           *)
(* single-term lookups.                                                    *)
(*                                                                         *)
(* A Python str is a sequence of one-character strings, a Record is its    *)
(* data dict (a function whose domain holds the fields it has), and        *)
(* dict.get is Get: <<>> for None, <<v>> for a value v.  An evaluator tree *)
(* is a sequence of nodes in preorder; node 1 is the root.                 *)
(***************************************************************************)
EXTENDS Integers, Sequences, FiniteSets, TLC

VARIABLES tree, corpus, records, path_length, call, pre, ret, err, log, steps

vars == <<tree, corpus, records, path_length, call, pre, ret, err, log, steps>>

(***************************************************************************)
(* Bounds of the model.                                                    *)
(***************************************************************************)
MaxNodes == 4
MaxDegenerateNodes == 3
MaxCorpus == 2
MaxList == 3
MaxTitleLen == 2
MaxTermLen == 2
MaxCount == 1
MaxOps == 2

(***************************************************************************)
(* Strings.                                                                *)
(***************************************************************************)
AND == <<"A", "N", "D">>
OR == <<"O", "R">>
NOT == <<"N", "O", "T">>

\* self.value == "AND", and elif self.value == "OR"
IsAndValue(v) == v = AND

AnyValueIsOr(v) == TRUE

IsOrValue(v) == v = OR

Letters == {"a", "b", "A", "B"}

Lower(c) == CASE c = "A" -> "a" [] c = "B" -> "b" [] OTHER -> c

LowerStr(s) == [i \in DOMAIN s |-> Lower(s[i])]

IsLetter(c) == c \in Letters

Get(data, field) == IF field \in DOMAIN data THEN <<data[field]>> ELSE <<>>

\* Python truthiness of data.get("title"): None and "" are falsy.
Truthy(opt) == opt # <<>> /\ opt[1] # <<>>

(***************************************************************************)
(* re.search(f"(^|[^a-zA-Z]){term.lower()}([^a-zA-Z]|$)", title.lower(),   *)
(* re.IGNORECASE).  The term is interpolated unescaped, so its characters  *)
(* are pattern atoms: "." matches any character, the others themselves.    *)
(***************************************************************************)
AtomMatch(atom, c) == atom = "." \/ Lower(atom) = Lower(c)

ReSearch(pattern, s) ==
    \E b \in 1..(Len(s) + 1) :
        /\ b = 1 \/ ~IsLetter(s[b - 1])
        /\ b + Len(pattern) - 1 <= Len(s)
        /\ \A k \in 1..Len(pattern) : AtomMatch(pattern[k], s[b + k - 1])
        /\ \/ b + Len(pattern) = Len(s) + 1
           \/ ~IsLetter(s[b + Len(pattern)])

TermMatches(term, record) ==
    /\ Truthy(Get(record, "title"))
    /\ ReSearch(LowerStr(term), LowerStr(record.title))

FilterRecordsByTerm(term, record_list) ==
    SelectSeq(record_list, LAMBDA r : TermMatches(term, r))

(***************************************************************************)
(* A Python dict as the sequence of its items in insertion order:          *)
(* d[k] = v replaces the value of a key already there, in place, and       *)
(* appends a new key at the end.                                           *)
(***************************************************************************)
DictSetFirstWins(d, k, v) ==
    IF \E i \in DOMAIN d : d[i].k = k THEN d ELSE Append(d, [k |-> k, v |-> v])

DictSet(d, k, v) ==
    IF \E i \in DOMAIN d : d[i].k = k
    THEN [i \in DOMAIN d |-> IF d[i].k = k THEN [k |-> k, v |-> v] ELSE d[i]]
    ELSE Append(d, [k |-> k, v |-> v])

DictValues(d) == [i \in DOMAIN d |-> d[i].v]

RECURSIVE CollapseBy(_, _, _)
CollapseBy(field, list, d) ==
    IF list = <<>> THEN d
    ELSE LET record == Head(list)
             key == IF field = "title" THEN <<LowerStr(record.title)>>
                    ELSE Get(record, field)
         IN  CollapseBy(field, Tail(list), DictSet(d, key, record))

DoiPass(list) == DictValues(CollapseBy("doi", list, <<>>))

TitlePass(list) == DictValues(CollapseBy("title", list, <<>>))

\* _remove_duplicates on a record list: the list it leaves in self.records and
\* the error it raises (None.lower() on a record without a title).
RemoveDuplicatesNoTitlePass(list) ==
    [list |-> DoiPass(list), err |-> "none"]

RemoveDuplicates(list) ==
    LET by_doi == DoiPass(list)
    IN  IF \E i \in DOMAIN by_doi : Get(by_doi[i], "title") = <<>>
        THEN [list |-> by_doi, err |-> "AttributeError"]
        ELSE [list |-> TitlePass(by_doi), err |-> "none"]

(***************************************************************************)
(* Query trees.  BEALSCrossref.__init__ copies value, operator and the     *)
(* children of every node of the source tree; a node is                    *)
(* [parent, operator, value], parent 0 for the root, and the children of a *)
(* node are the nodes naming it as parent, in preorder.                    *)
(***************************************************************************)
Terms == {<<"a">>, <<"b">>}

Leaf(p, term) == [parent |-> p, operator |-> FALSE, value |-> term]

Operator(p, v) == [parent |-> p, operator |-> TRUE, value |-> v]

Children(t, n) ==
    LET ids == {i \in DOMAIN t : t[i].parent = n}
        RECURSIVE Ascending(_)
        Ascending(S) ==
            IF S = {} THEN <<>>
            ELSE LET m == CHOOSE x \in S : \A y \in S : x <= y
                 IN  <<m>> \o Ascending(S \ {m})
    IN  Ascending(ids)

RECURSIVE AncestorsOrSelf(_, _)
AncestorsOrSelf(t, n) ==
    IF n = 0 THEN {} ELSE {n} \cup AncestorsOrSelf(t, t[n].parent)

Subtree(t, n) == {i \in DOMAIN t : n \in AncestorsOrSelf(t, i)}

\* The parent of node i+1 is node i or one of its ancestors: preorder numbering.
IsPreorder(t) ==
    /\ t[1].parent = 0
    /\ \A i \in 2..Len(t) : t[i].parent \in AncestorsOrSelf(t, i - 1)

WellFormed(t) ==
    /\ IsPreorder(t)
    /\ \A i \in DOMAIN t : ~t[i].operator => Children(t, i) = <<>>

NodeLabels(n, values) ==
    {Leaf(p, term) : p \in 0..(n - 1), term \in Terms}
        \cup {Operator(p, v) : p \in 0..(n - 1), v \in values}

TreesOfSize(n, values) == {t \in [1..n -> NodeLabels(n, values)] : WellFormed(t)}

\* Trees as the query layer builds them: AND/OR over terms, no empty operator.
PlainTrees ==
    UNION {{t \in TreesOfSize(n, {AND, OR}) :
              \A i \in DOMAIN t : t[i].operator => Children(t, i) # <<>>}
           : n \in 1..MaxNodes}

\* Trees with any operator value and with operators that have no children.
DegenerateTrees == UNION {TreesOfSize(n, {AND, OR, NOT}) : n \in 1..MaxDegenerateNodes}


(***************************************************************************)
(* The evaluation state the methods read and write: every node's records   *)
(* and path_length, the trace of the calls made (log), the exception in    *)
(* flight (err, "none" when there is none) and the value the last call     *)
(* returned (ret: a record list; node: an evaluator node).  env is what    *)
(* the remote service answers during one call: the total count of every    *)
(* term, whether the availability check passes, and the records streamed.  *)
(***************************************************************************)
UnsupportedOperator == "ValueError: Operator is not yet supported."

NoChildren == "ValueError: AndQuery must have at least one child."

ServiceNotAvailable == "ServiceNotAvailableException"

Event(ev, n, a) == [ev |-> ev, node |-> n, arg |-> a]

Logged(st, ev, n, a) == [st EXCEPT !.log = Append(@, Event(ev, n, a))]

Raise(st, e) == [st EXCEPT !.err = e]

Min(S) == CHOOSE x \in S : \A y \in S : x <= y

RECURSIVE Sum(_)
Sum(seq) == IF seq = <<>> THEN 0 ELSE Head(seq) + Sum(Tail(seq))

\* self.records = <the list a call returned>, unless the call raised.
Store(st, n) == IF st.err # "none" THEN st ELSE [st EXCEPT !.records[n] = st.ret]

\* self._remove_duplicates()
RemoveDuplicatesOf(st, n) ==
    LET r == RemoveDuplicates(st.records[n])
    IN  [st EXCEPT !.records[n] = r.list, !.err = r.err]

\* self.retrieve(): count, availability check, stream, confirm by title.
RetrieveWithoutCheck(st, t, n, env) ==
    LET s1 == Logged(st, "get_len_total", n, env.counts[t[n].value])
        s2 == Logged(s1, "get_records", n, 0)
    IN  [s2 EXCEPT !.ret = FilterRecordsByTerm(t[n].value, env.records)]

Retrieve(st, t, n, env) ==
    LET s1 == Logged(st, "get_len_total", n, env.counts[t[n].value])
        s2 == Logged(s1, "check_availability", n, 0)
        s3 == Logged(s2, "get_records", n, 0)
    IN  IF ~env.available THEN Raise(s2, ServiceNotAvailable)
        ELSE [s3 EXCEPT !.ret = FilterRecordsByTerm(t[n].value, env.records)]

\* The child calculate_path returns: the first child of minimal path_length.
MinLenChildLast(st, t, n) ==
    LET cs == Children(t, n)
        RECURSIVE Scan(_, _)
        Scan(i, best) ==
            IF i > Len(cs) THEN best
            ELSE Scan(i + 1, IF st.path_length[best] >= st.path_length[cs[i]]
                             THEN cs[i] ELSE best)
    IN  Scan(1, cs[1])

MinLenChild(st, t, n) ==
    LET cs == Children(t, n)
        RECURSIVE Scan(_, _)
        Scan(i, best) ==
            IF i > Len(cs) THEN best
            ELSE Scan(i + 1, IF st.path_length[best] > st.path_length[cs[i]]
                             THEN cs[i] ELSE best)
    IN  Scan(1, cs[1])

PathLength(st, t, n) ==
    LET lens == [i \in DOMAIN Children(t, n) |-> st.path_length[Children(t, n)[i]]]
    IN  IF IsAndValue(t[n].value) THEN Min({lens[i] : i \in DOMAIN lens}) ELSE Sum(lens)

\* Once every child has its path_length: set the node's own, pick the child.
CalculatePathOfChildren(st, t, n) ==
    LET s1 == [st EXCEPT !.path_length[n] = PathLength(st, t, n)]
    IN  IF st.err # "none" THEN st
        ELSE [s1 EXCEPT !.node = MinLenChild(s1, t, n)]

RECURSIVE CalculatePath(_, _, _, _)
CalculatePath(st, t, n, env) ==
    LET s0 == Logged(st, "calculate_path", n, 0)
        cs == Children(t, n)
        RECURSIVE Each(_, _)
        Each(s, i) ==
            IF i > Len(cs) \/ s.err # "none" THEN s
            ELSE Each(CalculatePath(s, t, cs[i], env), i + 1)
    IN  IF ~t[n].operator
        THEN LET s1 == Logged(s0, "get_len_total", n, env.counts[t[n].value])
             IN  [s1 EXCEPT !.path_length[n] = env.counts[t[n].value], !.node = n]
        ELSE IF Len(cs) = 0 THEN Raise(s0, NoChildren)
        ELSE IF ~IsAndValue(t[n].value) /\ ~IsOrValue(t[n].value)
        THEN Raise(s0, UnsupportedOperator)
        ELSE CalculatePathOfChildren(Each(s0, 1), t, n)


(***************************************************************************)
(* filter_records, _and_filter and _or_filter.  A call leaves the list it  *)
(* returns in ret; filter_records also stores it in the node's records.    *)
(***************************************************************************)
RECURSIVE FilterRecords(_, _, _, _)
RECURSIVE AndFilter(_, _, _, _)
RECURSIVE OrFilter(_, _, _, _)

\* First loop of _and_filter: narrow by every leaf child's term.
AndFilterLeaves(t, n, parent_records) ==
    LET cs == Children(t, n)
        RECURSIVE Each(_, _)
        Each(list, i) ==
            IF i > Len(cs) THEN list
            ELSE Each(IF ~t[cs[i]].operator
                      THEN FilterRecordsByTerm(t[cs[i]].value, list)
                      ELSE list, i + 1)
    IN  Each(parent_records, 1)

AndFilterLeavesOnly(st, t, n, parent_records) ==
    [st EXCEPT !.ret = AndFilterLeaves(t, n, parent_records)]

AndFilter(st, t, n, parent_records) ==
    LET cs == Children(t, n)
        RECURSIVE Each(_, _)
        Each(s, i) ==
            IF i > Len(cs) \/ s.err # "none" THEN s
            ELSE Each(IF t[cs[i]].operator
                      THEN FilterRecords(s, t, cs[i], s.ret)
                      ELSE s, i + 1)
    IN  Each([st EXCEPT !.ret = AndFilterLeaves(t, n, parent_records)], 1)

OrFilterFirstChild(st, t, n, parent_records) ==
    LET cs == Children(t, n)
    IN  IF cs = <<>> THEN [st EXCEPT !.ret = <<>>]
        ELSE IF ~t[cs[1]].operator
        THEN [st EXCEPT !.ret = FilterRecordsByTerm(t[cs[1]].value, parent_records)]
        ELSE FilterRecords(st, t, cs[1], parent_records)

\* child_records.extend(<the list a call returned>)
ExtendWith(child_records, st) == [st EXCEPT !.ret = child_records \o @]

\* The list child_records is kept in ret between the children.
OrFilter(st, t, n, parent_records) ==
    LET cs == Children(t, n)
        RECURSIVE Each(_, _)
        Each(s, i) ==
            IF i > Len(cs) \/ s.err # "none" THEN s
            ELSE IF ~t[cs[i]].operator
            THEN Each(ExtendWith(s.ret, [s EXCEPT !.ret =
                          FilterRecordsByTerm(t[cs[i]].value, parent_records)]), i + 1)
            ELSE Each(ExtendWith(s.ret, FilterRecords(s, t, cs[i], parent_records)),
                      i + 1)
    IN  Each([st EXCEPT !.ret = <<>>], 1)

FilterRecords(st, t, n, parent_records) ==
    LET s0 == Logged(st, "filter_records", n, 0)
    IN  Store(IF ~t[n].operator
              THEN [s0 EXCEPT !.ret = FilterRecordsByTerm(t[n].value, parent_records)]
              ELSE IF IsAndValue(t[n].value) THEN AndFilter(s0, t, n, parent_records)
              ELSE IF IsOrValue(t[n].value) THEN OrFilter(s0, t, n, parent_records)
              ELSE Raise(s0, UnsupportedOperator), n)

(***************************************************************************)
(* run_beals.                                                              *)
(***************************************************************************)
RECURSIVE RunBeals(_, _, _, _)

\* OR branch: run every child, then extend self.records by each child's records.
RunBealsOr(st, t, n, env) ==
    LET cs == Children(t, n)
        RECURSIVE Run(_, _)
        Run(s, i) ==
            IF i > Len(cs) \/ s.err # "none" THEN s
            ELSE Run(RunBeals(s, t, cs[i], env), i + 1)
        RECURSIVE Extend(_, _)
        Extend(s, i) ==
            IF i > Len(cs) \/ s.err # "none" THEN s
            ELSE Extend([s EXCEPT !.records[n] = @ \o s.records[cs[i]]], i + 1)
    IN  Extend(Run(st, 1), 1)

RunBealsAndEveryChild(st, t, n, env) == RunBealsOr(st, t, n, env)

\* for c in self.children: if c != next_child:
\*     self.records = c.filter_records(self.records)
RunBealsAndOthers(st, t, n, next_child) ==
    LET cs == Children(t, n)
        RECURSIVE Each(_, _)
        Each(s, i) ==
            IF i > Len(cs) \/ s.err # "none" THEN s
            ELSE IF cs[i] = next_child THEN Each(s, i + 1)
            ELSE Each(Store(FilterRecords(s, t, cs[i], s.records[n]), n), i + 1)
    IN  Each(st, 1)

\* self.records = next_child.run_beals(), next_child being the node
\* calculate_path left in st.node.
RunBealsAndPivot(st, t, n, env) ==
    IF st.err # "none" THEN st
    ELSE RunBealsAndOthers(
             Store(RunBeals(Logged(st, "pivot", n, st.node), t, st.node, env), n),
             t, n, st.node)

\* AND branch: run the pivot, then filter by every other child in order.
RunBealsAnd(st, t, n, env) == RunBealsAndPivot(CalculatePath(st, t, n, env), t, n, env)

\* return self.records
RunBealsReturn(st, n) ==
    IF st.err # "none" THEN st
    ELSE Logged([st EXCEPT !.ret = st.records[n]], "return", n, 0)

\* self._remove_duplicates(); return self.records
RunBealsEnd(st, n) ==
    IF st.err # "none" THEN st ELSE RunBealsReturn(RemoveDuplicatesOf(st, n), n)

RunBeals(st, t, n, env) ==
    LET s0 == Logged(st, "run_beals", n, 0)
    IN  RunBealsEnd(IF ~t[n].operator THEN Store(Retrieve(s0, t, n, env), n)
                    ELSE IF IsAndValue(t[n].value) THEN RunBealsAnd(s0, t, n, env)
                    ELSE IF IsOrValue(t[n].value) THEN RunBealsOr(s0, t, n, env)
                    ELSE Raise(s0, UnsupportedOperator), n)


(***************************************************************************)
(* Records and the lists of them the remote service streams.               *)
(***************************************************************************)
RECURSIVE SeqsUpTo(_, _)
SeqsUpTo(S, n) ==
    IF n = 0 THEN {<<>>}
    ELSE LET shorter == SeqsUpTo(S, n - 1)
         IN  shorter \cup {Append(q, x) : q \in {p \in shorter : Len(p) = n - 1}, x \in S}

Record(doi, title) == [doi |-> doi, title |-> title]

\* Titles matching both terms, one of them, in either case.
EvalRecords ==
    {Record(d, title) : d \in {"d1", "d2"},
                        title \in {<<"a", " ", "b">>, <<"a">>, <<"b">>}}

\* Records that collide on the DOI or on the title, or lack one of the two.
DedupRecords ==
    {Record("d1", <<"a">>), Record("d1", <<"b">>), Record("d2", <<"B">>),
     Record("d2", <<"b">>), [title |-> <<"b">>], [doi |-> "d1"],
     Record("d2", <<>>)}

\* Titles over letters in both cases and a separator; terms over a letter and
\* the character "." .
TermTitles == SeqsUpTo({"a", "A", " "}, MaxTitleLen)

TermStrings == SeqsUpTo({"a", "."}, MaxTermLen) \ {<<>>}

TermRecords == {Record("d1", title) : title \in TermTitles} \cup {[doi |-> "d1"]}

LeafTree(term) == <<Leaf(0, term)>>

\* Query trees as the query layer builds them, over a corpus with DOI and
\* title collisions.
EvalInputs == PlainTrees \X SeqsUpTo(EvalRecords, MaxCorpus)

\* Trees with unsupported or childless operators.
DegenerateInputs == DegenerateTrees \X SeqsUpTo({Record("d1", <<"a">>)}, 1)

\* One leaf and the record lists deduplication is about.
ListInputs == {LeafTree(<<"b">>)} \X SeqsUpTo(DedupRecords, MaxList)

\* One leaf of every term and the titles term matching is about.
TermInputs == {LeafTree(term) : term \in TermStrings} \X SeqsUpTo(TermRecords, MaxCorpus)

(***************************************************************************)
(* The state machine: an evaluator tree over a remote corpus, and the      *)
(* calls a client makes on its root.                                       *)
(***************************************************************************)
Root == 1

NoCounts == <<>>

LeafTerms(t) == {t[i].value : i \in {j \in DOMAIN t : ~t[j].operator}}

Counts(t) == [LeafTerms(t) -> 0..MaxCount]

NoReturn == [kind |-> "none", list |-> <<>>, node |-> 0]

ReturnList(list) == [kind |-> "list", list |-> list, node |-> 0]

ReturnNode(n) == [kind |-> "node", list |-> <<>>, node |-> n]

Call(name, counts, available, input) ==
    [name |-> name, counts |-> counts, available |-> available, input |-> input]

Env(counts, available) ==
    [counts |-> counts, available |-> available, records |-> corpus]

\* The evaluation state a call starts from.
Entry == [records |-> records, path_length |-> path_length, log |-> <<>>,
          err |-> "none", ret |-> <<>>, node |-> 0]

\* BEALSCrossref(query): no records, path_length -1.
InitOn(inputs) ==
    /\ \E input \in inputs : tree = input[1] /\ corpus = input[2]
    /\ records = [n \in DOMAIN tree |-> <<>>]
    /\ path_length = [n \in DOMAIN tree |-> -1]
    /\ call = Call("init", NoCounts, TRUE, <<>>)
    /\ pre = records
    /\ ret = NoReturn
    /\ err = "none"
    /\ log = <<>>
    /\ steps = 0

Finish(name, counts, available, input, st, value) ==
    /\ steps < MaxOps
    /\ steps' = steps + 1
    /\ call' = Call(name, counts, available, input)
    /\ pre' = records
    /\ records' = st.records
    /\ path_length' = st.path_length
    /\ log' = st.log
    /\ err' = st.err
    /\ ret' = IF st.err = "none" THEN value ELSE NoReturn
    /\ UNCHANGED <<tree, corpus>>

\* results = beals.run_beals()
RunBealsOp ==
    \E counts \in Counts(tree), available \in BOOLEAN :
        LET st == RunBeals(Entry, tree, Root, Env(counts, available))
        IN  Finish("run_beals", counts, available, <<>>, st, ReturnList(st.ret))

\* beals.calculate_path()
CalculatePathOp ==
    \E counts \in Counts(tree) :
        LET st == CalculatePath(Entry, tree, Root, Env(counts, TRUE))
        IN  Finish("calculate_path", counts, TRUE, <<>>, st, ReturnNode(st.node))

\* beals.filter_records(parent_records), on the records the service holds
FilterRecordsOp ==
    LET st == FilterRecords(Entry, tree, Root, corpus)
    IN  Finish("filter_records", NoCounts, TRUE, corpus, st, ReturnList(st.ret))

\* beals.records = [...], as the tests seed a node
SetRecordsOp ==
    LET st == [Entry EXCEPT !.records[Root] = corpus]
    IN  Finish("set_records", NoCounts, TRUE, corpus, st, NoReturn)

\* beals._remove_duplicates()
RemoveDuplicatesOp ==
    LET st == RemoveDuplicatesOf(Entry, Root)
    IN  Finish("_remove_duplicates", NoCounts, TRUE, <<>>, st, NoReturn)

Next ==
    \/ RunBealsOp
    \/ CalculatePathOp
    \/ FilterRecordsOp
    \/ SetRecordsOp
    \/ RemoveDuplicatesOp

Init == InitOn(EvalInputs)

Spec == Init /\ [][Next]_vars

InitDegenerate == InitOn(DegenerateInputs)

SpecDegenerate == InitDegenerate /\ [][Next]_vars

InitLists == InitOn(ListInputs)

SpecLists == InitLists /\ [][Next]_vars

InitTerms == InitOn(TermInputs)

SpecTerms == InitTerms /\ [][Next]_vars

InitAll == InitOn(EvalInputs \cup DegenerateInputs \cup ListInputs \cup TermInputs)

SpecAll == InitAll /\ [][Next]_vars


(***************************************************************************)
(* What the properties below are stated in.                                *)
(***************************************************************************)
SetOf(list) == {list[i] : i \in DOMAIN list}

IsAnd(n) == tree[n].operator /\ tree[n].value = AND

IsOr(n) == tree[n].operator /\ tree[n].value = OR

\* The term match rule: the term occurs in the title, case-insensitively,
\* bounded on each side by a non-letter or by the end of the title.
OccursBounded(term, title) ==
    \E b \in 1..(Len(title) + 1) :
        /\ b + Len(term) - 1 <= Len(title)
        /\ \A k \in 1..Len(term) : Lower(term[k]) = Lower(title[b + k - 1])
        /\ b = 1 \/ ~IsLetter(title[b - 1])
        /\ b + Len(term) = Len(title) + 1 \/ ~IsLetter(title[b + Len(term)])

RuleMatches(term, record) ==
    /\ "title" \in DOMAIN record
    /\ record.title # <<>>
    /\ OccursBounded(term, record.title)

\* A native boolean search: does the expression rooted at n select the record?
RECURSIVE Selects(_, _, _)
Selects(t, n, record) ==
    IF ~t[n].operator THEN RuleMatches(t[n].value, record)
    ELSE IF t[n].value = AND
    THEN \A i \in DOMAIN Children(t, n) : Selects(t, Children(t, n)[i], record)
    ELSE \E i \in DOMAIN Children(t, n) : Selects(t, Children(t, n)[i], record)

Returned(name) == call.name = name /\ err = "none"

\* run_beals has returned on the root of a tree nothing else was called on.
FreshRunReturned == Returned("run_beals") /\ steps = 1

Represents(r, record) ==
    \/ Get(r, "doi") = Get(record, "doi")
    \/ LowerStr(r.title) = LowerStr(record.title)

(***************************************************************************)
(* C1: run_beals on the root of a fresh tree of terms and AND/OR nodes     *)
(* returns what a native boolean search returns: every returned record     *)
(* satisfies the expression, and every corpus record that satisfies it is  *)
(* represented in the result by a record of the same DOI or the same       *)
(* case-normalized title.                                                  *)
(***************************************************************************)
C1_NativeEquivalent ==
    FreshRunReturned =>
        /\ \A i \in DOMAIN ret.list : Selects(tree, Root, ret.list[i])
        /\ \A j \in DOMAIN corpus :
               Selects(tree, Root, corpus[j]) =>
                   \E i \in DOMAIN ret.list : Represents(ret.list[i], corpus[j])


(***************************************************************************)
(* C2: while run_beals executes on an AND node, run_beals is invoked on    *)
(* one direct child only, the pivot calculate_path returned (on exactly    *)
(* one once a pivot is chosen); every other child is passed to             *)
(* filter_records, and no leaf below a non-pivot child is ever retrieved   *)
(* (availability check or record streaming).                               *)
(***************************************************************************)
EventsOf(ev) == {i \in DOMAIN log : log[i].ev = ev}

\* The children of n that run_beals was invoked on, and the pivots n chose.
ChildrenRun(n) == {log[i].node : i \in {j \in EventsOf("run_beals") : tree[log[j].node].parent = n}}

Pivots(n) == {log[i].arg : i \in {j \in EventsOf("pivot") : log[j].node = n}}

Retrieved == {log[i].node : i \in EventsOf("get_records") \cup EventsOf("check_availability")}

Filtered == {log[i].node : i \in EventsOf("filter_records")}

AndNodesRun == {n \in DOMAIN tree : IsAnd(n) /\ \E i \in EventsOf("run_beals") : log[i].node = n}

C2_OnlyPivotRetrieved ==
    call.name = "run_beals" =>
        \A n \in AndNodesRun :
            /\ ChildrenRun(n) = Pivots(n)
            /\ Cardinality(ChildrenRun(n)) <= 1
            /\ Cardinality({i \in EventsOf("run_beals") : tree[log[i].node].parent = n}) <= 1
            /\ \A c \in SetOf(Children(tree, n)) \ Pivots(n) :
                   /\ Subtree(tree, c) \cap Retrieved = {}
                   /\ \A m \in Subtree(tree, c) : m \notin ChildrenRun(tree[m].parent)
                   /\ err = "none" => c \in Filtered

\* An AND node with three children has returned: one ran, two were filtered.
C2_Witness ==
    /\ Returned("run_beals")
    /\ IsAnd(Root)
    /\ Len(Children(tree, Root)) = 3
    /\ Cardinality(ChildrenRun(Root)) = 1
    /\ Cardinality(SetOf(Children(tree, Root)) \cap Filtered) = 2
    /\ ret.list # <<>>


(***************************************************************************)
(* C3: filter_records on an AND node, given a non-empty list, returns a    *)
(* list whose set of records is the intersection of what each child's own  *)
(* filter returns for the same list (the list itself when the node has no  *)
(* child), whatever the order of the children.                             *)
(***************************************************************************)
\* What the filter of child c returns for the list, called on its own.
ChildFilter(c, list) == SetOf(FilterRecords(Entry, tree, c, list).ret)

FilterReturned == Returned("filter_records") /\ call.input # <<>>

C3_AndFilterIsIntersection ==
    (FilterReturned /\ IsAnd(Root)) =>
        SetOf(ret.list) =
            {r \in SetOf(call.input) :
                \A c \in SetOf(Children(tree, Root)) : r \in ChildFilter(c, call.input)}

\* An operator child listed before a leaf child: the leaf drops a record the
\* operator child keeps, and the result is neither empty nor the input.
C3_Witness ==
    /\ FilterReturned
    /\ IsAnd(Root)
    /\ Len(Children(tree, Root)) = 2
    /\ tree[Children(tree, Root)[1]].operator
    /\ ~tree[Children(tree, Root)[2]].operator
    /\ ret.list # <<>>
    /\ SetOf(ret.list) # SetOf(call.input)
    /\ ChildFilter(Children(tree, Root)[1], call.input) # SetOf(ret.list)

(***************************************************************************)
(* C4 as stated: filter_records on an OR node, given a non-empty list,     *)
(* returns a list that, reduced by DOI, equals the union of what each      *)
(* child's own filter returns for the same list.                           *)
(***************************************************************************)
ChildrenUnion(list) ==
    UNION {ChildFilter(c, list) : c \in SetOf(Children(tree, Root))}

C4_DoiReducedIsUnion ==
    (FilterReturned /\ IsOr(Root)) =>
        SetOf(DoiPass(ret.list)) = ChildrenUnion(call.input)

(***************************************************************************)
(* C4 amended: the set of records of the returned list (duplicates         *)
(* ignored) equals that union; reduced by DOI it still equals the union    *)
(* when no two different records of the input share a DOI or both lack     *)
(* one.                                                                    *)
(***************************************************************************)
DoiCollision(list) ==
    \E i, j \in DOMAIN list :
        list[i] # list[j] /\ Get(list[i], "doi") = Get(list[j], "doi")

C4_OrFilterIsUnion ==
    (FilterReturned /\ IsOr(Root)) =>
        /\ SetOf(ret.list) = ChildrenUnion(call.input)
        /\ ~DoiCollision(call.input) =>
               SetOf(DoiPass(ret.list)) = ChildrenUnion(call.input)

\* Two children that each keep a record the other drops and share one: the
\* list returned has a duplicate, and the input has no DOI collision.
C4_Witness ==
    /\ FilterReturned
    /\ IsOr(Root)
    /\ ~DoiCollision(call.input)
    /\ Len(ret.list) > Cardinality(SetOf(ret.list))
    /\ \A c \in SetOf(Children(tree, Root)) :
           ChildFilter(c, call.input) # ChildrenUnion(call.input)


(***************************************************************************)
(* C5: when run_beals returns on a node, and when _remove_duplicates       *)
(* completes, the node's records hold no two records of the same DOI and   *)
(* no two of the same lower-cased title.                                   *)
(***************************************************************************)
Deduplicated(list) ==
    \A i, j \in DOMAIN list :
        i # j => /\ Get(list[i], "doi") # Get(list[j], "doi")
                 /\ LowerStr(list[i].title) # LowerStr(list[j].title)

ReturnedFrom == {log[i].node : i \in EventsOf("return")}

C5_RecordsDeduplicated ==
    /\ call.name = "run_beals" => \A n \in ReturnedFrom : Deduplicated(records[n])
    /\ Returned("_remove_duplicates") => Deduplicated(records[Root])

\* Two records whose titles differ only in case, under different DOIs, were
\* in the list and one record is left.
C5_Witness ==
    /\ Returned("_remove_duplicates")
    /\ Len(records[Root]) = 1
    /\ \E i, j \in DOMAIN pre[Root] :
           /\ Get(pre[Root][i], "doi") # Get(pre[Root][j], "doi")
           /\ pre[Root][i].title # pre[Root][j].title
           /\ LowerStr(pre[Root][i].title) = LowerStr(pre[Root][j].title)

(***************************************************************************)
(* C6: after calculate_path returns, a leaf's path_length is the remote    *)
(* count of its term and the leaf returns itself; an AND node's            *)
(* path_length is the minimum and an OR node's the sum of its children's   *)
(* path_length; an operator node returns its first child of minimal        *)
(* path_length.                                                            *)
(***************************************************************************)
ChildLengths(n) == [i \in DOMAIN Children(tree, n) |-> path_length[Children(tree, n)[i]]]

FirstMinimal(n, k) ==
    /\ \A j \in DOMAIN ChildLengths(n) : ChildLengths(n)[k] <= ChildLengths(n)[j]
    /\ \A j \in 1..(k - 1) : ChildLengths(n)[k] < ChildLengths(n)[j]

C6_PathLengths ==
    Returned("calculate_path") =>
        /\ \A n \in DOMAIN tree :
               /\ ~tree[n].operator => path_length[n] = call.counts[tree[n].value]
               /\ IsAnd(n) =>
                      /\ \E k \in DOMAIN ChildLengths(n) : path_length[n] = ChildLengths(n)[k]
                      /\ \A k \in DOMAIN ChildLengths(n) : path_length[n] <= ChildLengths(n)[k]
               /\ IsOr(n) => path_length[n] = Sum(ChildLengths(n))
        /\ ~tree[Root].operator => ret.node = Root
        /\ tree[Root].operator =>
               \E k \in DOMAIN ChildLengths(Root) :
                   ret.node = Children(tree, Root)[k] /\ FirstMinimal(Root, k)

\* An OR root over two children tied at a positive count: the first is
\* returned and the root's path_length is their sum.
C6_Witness ==
    /\ Returned("calculate_path")
    /\ IsOr(Root)
    /\ Len(Children(tree, Root)) = 2
    /\ ChildLengths(Root)[1] = ChildLengths(Root)[2]
    /\ ChildLengths(Root)[1] > 0
    /\ ret.node = Children(tree, Root)[1]
    /\ path_length[Root] = 2 * ChildLengths(Root)[1]


(***************************************************************************)
(* C7 as stated: of two records of the list given to _remove_duplicates    *)
(* that share a DOI, the one that appears later (the last of that DOI)     *)
(* survives in the deduplicated list.                                      *)
(***************************************************************************)
SameDoiKey(list, i, j) == Get(list[i], "doi") = Get(list[j], "doi")

\* i is before j, both have the same DOI key and no later record has it.
EarlierAndLast(list, i, j) ==
    /\ i < j
    /\ SameDoiKey(list, i, j)
    /\ \A k \in DOMAIN list : k > j => ~SameDoiKey(list, j, k)

C7_LaterSurvives ==
    Returned("_remove_duplicates") =>
        \A i, j \in DOMAIN pre[Root] :
            (EarlierAndLast(pre[Root], i, j) /\ "doi" \in DOMAIN pre[Root][j]) =>
                pre[Root][j] \in SetOf(records[Root])

(***************************************************************************)
(* C7 amended: of two records that share a DOI the earlier one, when it    *)
(* differs from the later, never survives; the last record of that DOI     *)
(* survives unless the title pass collapses it into a record of another    *)
(* DOI with the same lower-cased title, and then no record of that DOI     *)
(* survives.                                                               *)
(***************************************************************************)
CollapsedByTitle(list, record) ==
    /\ \A r \in SetOf(list) : Get(r, "doi") # Get(record, "doi")
    /\ \E r \in SetOf(list) : LowerStr(r.title) = LowerStr(record.title)

C7_EarlierNeverSurvives ==
    call.name = "_remove_duplicates" =>
        \A i, j \in DOMAIN pre[Root] :
            EarlierAndLast(pre[Root], i, j) =>
                /\ pre[Root][i] # pre[Root][j] => pre[Root][i] \notin SetOf(records[Root])
                /\ \/ pre[Root][j] \in SetOf(records[Root])
                   \/ err = "none" /\ CollapsedByTitle(records[Root], pre[Root][j])

\* Two different records of one DOI, then a record of another DOI: the later
\* of the two is left, with the third.
C7_Witness ==
    /\ Returned("_remove_duplicates")
    /\ Len(pre[Root]) = 3
    /\ Len(records[Root]) = 2
    /\ EarlierAndLast(pre[Root], 1, 2)
    /\ pre[Root][1] # pre[Root][2]
    /\ records[Root][1] = pre[Root][2]

(***************************************************************************)
(* C8: _remove_duplicates never fails on a record that lacks a DOI or a    *)
(* title; at most one record without DOI and at most one without title     *)
(* remain.                                                                 *)
(***************************************************************************)
Lacking(list, field) == {i \in DOMAIN list : Get(list[i], field) = <<>>}

C8_MissingFieldsTolerated ==
    call.name = "_remove_duplicates" =>
        /\ err = "none"
        /\ Cardinality(Lacking(records[Root], "doi")) <= 1
        /\ Cardinality(Lacking(records[Root], "title")) <= 1

(***************************************************************************)
(* C9: filter_records on a leaf returns exactly the records of its input,  *)
(* in order, whose title contains the term under the term match rule; a    *)
(* record without title or with an empty title is never returned.          *)
(***************************************************************************)
C9_LeafFilterIsTermRule ==
    (Returned("filter_records") /\ ~tree[Root].operator) =>
        ret.list = SelectSeq(call.input, LAMBDA r : RuleMatches(tree[Root].value, r))


(***************************************************************************)
(* C10 as stated: when the tree holds an operator node whose value is      *)
(* neither AND nor OR, run_beals on the root fails with the unsupported-   *)
(* operator error, and so do calculate_path and filter_records called on   *)
(* such a node.                                                            *)
(***************************************************************************)
Unsupported(n) == tree[n].operator /\ tree[n].value \notin {AND, OR}

HasUnsupported == \E n \in DOMAIN tree : Unsupported(n)

Called(name) == call.name = name

C10_UnsupportedOperatorError ==
    /\ (HasUnsupported /\ Called("run_beals")) => err = UnsupportedOperator
    /\ (Unsupported(Root) /\ (Called("calculate_path") \/ Called("filter_records"))) =>
           err = UnsupportedOperator

(***************************************************************************)
(* C10 amended: run_beals on the root of such a tree never returns a       *)
(* list, it fails; the error is the unsupported-operator error when every  *)
(* operator node has a child and the availability check passes (otherwise  *)
(* the childless-operator error or the availability error may come         *)
(* first).  filter_records on such a node fails with the unsupported-      *)
(* operator error; calculate_path on it does too when the node has a       *)
(* child, and fails with the childless-operator error when it has none.    *)
(***************************************************************************)
EveryOperatorHasChild ==
    \A n \in DOMAIN tree : tree[n].operator => Children(tree, n) # <<>>

C10_UnsupportedOperatorFails ==
    /\ (HasUnsupported /\ Called("run_beals")) =>
           /\ err \in {UnsupportedOperator, NoChildren, ServiceNotAvailable}
           /\ ret = NoReturn
           /\ (EveryOperatorHasChild /\ call.available) => err = UnsupportedOperator
    /\ (Unsupported(Root) /\ Called("filter_records")) => err = UnsupportedOperator
    /\ (Unsupported(Root) /\ Called("calculate_path")) =>
           err = IF Children(tree, Root) = <<>> THEN NoChildren ELSE UnsupportedOperator

\* An OR root whose first child was retrieved and returned before its second,
\* unsupported, child failed the evaluation.
C10_Witness ==
    /\ Called("run_beals")
    /\ IsOr(Root)
    /\ ~Unsupported(Root)
    /\ HasUnsupported
    /\ \E n \in ReturnedFrom : records[n] # <<>>
    /\ err = UnsupportedOperator

(***************************************************************************)
(* C11: building the evaluator over an operator node without children      *)
(* succeeds, and the failure comes at evaluation: run_beals on an AND or   *)
(* OR node without children fails with the childless-operator error        *)
(* instead of returning a list, and so does calculate_path.                *)
(***************************************************************************)
Childless(n) == (IsAnd(n) \/ IsOr(n)) /\ Children(tree, n) = <<>>

\* The nodes run_beals was invoked on during the call.
RunOn == {log[i].node : i \in EventsOf("run_beals")}

C11_ChildlessOperatorFails ==
    /\ Called("run_beals") =>
           \A n \in RunOn : Childless(n) => (err = NoChildren /\ n \notin ReturnedFrom)
    /\ (Called("calculate_path") /\ Childless(Root)) => err = NoChildren

(***************************************************************************)
(* C12: in retrieve, records are streamed (get_records) only right after   *)
(* the availability check of the same retrieve has passed; when the check  *)
(* fails nothing is streamed, the check is not repeated, the error reaches *)
(* the caller of run_beals, and the leaf's records are what they were      *)
(* before the call.                                                        *)
(***************************************************************************)
\* The leaves whose retrieve reached the availability check.
Checked == {log[i].node : i \in EventsOf("check_availability")}

C12_StreamAfterCheck ==
    Called("run_beals") =>
        /\ \A i \in EventsOf("get_records") :
               /\ i > 1
               /\ log[i - 1].ev = "check_availability"
               /\ log[i - 1].node = log[i].node
               /\ call.available
        /\ (~call.available /\ Checked # {}) =>
               /\ EventsOf("get_records") = {}
               /\ Cardinality(EventsOf("check_availability")) = 1
               /\ err = ServiceNotAvailable
               /\ ret = NoReturn
               /\ \A n \in Checked : ~tree[n].operator /\ records[n] = pre[n]

\* A leaf that held records from an earlier evaluation keeps them when the
\* availability check of a second evaluation fails.
C12_Witness ==
    /\ Called("run_beals")
    /\ ~call.available
    /\ err = ServiceNotAvailable
    /\ \E n \in Checked : pre[n] # <<>> /\ records[n] = pre[n] /\ n # Root

(***************************************************************************)
(* C13: the counts only choose which child of an AND node is retrieved:    *)
(* two run_beals evaluations of one fresh tree over one corpus that differ *)
(* only in the counts the service reports return the same set of records   *)
(* at the root.                                                            *)
(***************************************************************************)
\* The evaluation state of the tree as constructed.
FreshEntry == [records |-> [n \in DOMAIN tree |-> <<>>],
               path_length |-> [n \in DOMAIN tree |-> -1],
               log |-> <<>>, err |-> "none", ret |-> <<>>, node |-> 0]

\* Another evaluation ended like the one observed.
SameResult(other) == other.err = "none" /\ SetOf(other.ret) = SetOf(ret.list)

C13_CountsDoNotChangeResult ==
    FreshRunReturned =>
        \A counts \in Counts(tree) :
            SameResult(RunBeals(FreshEntry, tree, Root, Env(counts, TRUE)))

(***************************************************************************)
(* C14: after run_beals returns on an OR node, the node's records are the  *)
(* union of its children's records, collapsed by DOI with the later child  *)
(* winning and deduplicated, and nothing else, whatever was done on the    *)
(* node before (an earlier run_beals or filter_records that left records). *)
(***************************************************************************)
RECURSIVE Concat(_)
Concat(lists) == IF lists = <<>> THEN <<>> ELSE Head(lists) \o Concat(Tail(lists))

\* The children's records, one child after the other.
ChildrenRecords(n) == Concat([i \in DOMAIN Children(tree, n) |-> records[Children(tree, n)[i]]])

C14_OrRecordsAreChildrenUnion ==
    Returned("run_beals") =>
        \A n \in ReturnedFrom :
            IsOr(n) => SetOf(records[n]) = SetOf(RemoveDuplicates(ChildrenRecords(n)).list)

(***************************************************************************)
(* C15: during one run_beals call on the root of an AND/OR tree,           *)
(* calculate_path is executed at most once on each AND node.               *)
(***************************************************************************)
\* How many times calculate_path was executed on n during the call.
PathCalculations(n) == Cardinality({i \in EventsOf("calculate_path") : log[i].node = n})

C15_PathCalculatedOnce ==
    Called("run_beals") => \A n \in DOMAIN tree : IsAnd(n) => PathCalculations(n) <= 1

====
